---- MODULE Spec2Model ----
(***************************************************************************)
(* Model of spelling_master.py: the single-key reader (Getch), the         *)
(* word-book loader (load_wordbook), the per-word input state machine      *)
(* (smart_input) and the drill loop (main).                                *)
(*                                                                         *)
(* A Python string is a sequence of one-character strings.  Control codes  *)
(* that TLA+ cannot write as an escape are named: "BS" = 0x08,             *)
(* "DEL" = 0x7f, "ETX" = 0x03, "ESC" = 0x1b, "NUL" = 0x00, "E0" = 0xe0,    *)
(* "FF" = 0xff.  "None" is Python's None and "" the empty string.          *)
(***************************************************************************)
EXTENDS Integers, Sequences, FiniteSets, TLC

VARIABLES
    platform,      \* "win" when msvcrt can be imported, "unix" otherwise
    file,          \* wordbook<id>.txt: [exists, lines]
    term,          \* attributes of the terminal behind stdin
    term0,         \* the attributes it had when the program started
    pc,            \* position of the program
    words,         \* result of load_wordbook: [none, list]
    errors,        \* number of "file not found" reports printed
    index,         \* main: index
    target,        \* main: target / smart_input: target_word
    input_buffer,  \* smart_input: input_buffer
    out,           \* characters smart_input wrote to stdout in this attempt
    char,          \* smart_input: char, the value the last getch() returned
    user_input,    \* main: user_input
    banner,        \* line main printed after the current prompt
    keys,          \* values getch() returned during this attempt, in order
    old_settings,  \* _GetchUnix.__call__: old_settings
    reads,         \* sys.stdin.read(1) calls made by the current getch()
    bytes,         \* _GetchWindows.__call__: the bytes this call took
    exc,           \* an exception is propagating out of the try block
    restore_failed,\* termios.tcsetattr of the finally clause has raised
    delivered      \* number of values getch() has returned in this run

vars == <<platform, file, term, term0, pc, words, errors, index, target,
          input_buffer, out, char, user_input, banner, keys,
          old_settings, reads, bytes, exc, restore_failed, delivered>>

\* Largest number of keys delivered to the program in one run.
MaxKeys == 4

----------------------------------------------------------------------------
\* Characters and raw units

\* Characters for which str.isprintable() is true.
PrintableChars == {"a", "b", " "}

\* Characters str.strip() removes.
Whitespace == {" ", "\t", "\n", "\r"}

\* Values that end the while loop of smart_input (return or sys.exit).
EndKeys == {"\r", "\n", "ETX"}

\* Values a read of one character from a POSIX terminal can yield; "" is
\* what read(1) yields at end of input.
UnixUnits == PrintableChars \cup {"\t", "BS", "DEL", "ESC", ""} \cup EndKeys

\* Bytes msvcrt.getch() can yield.
WinBytes == PrintableChars \cup {"\t", "BS", "DEL", "ESC", "NUL", "E0", "FF"}
              \cup EndKeys

\* Bytes that follow a lead byte, one for each way a key can be handled.
SecondBytes == {"a", "\t", "BS", "\r", "ETX"}

\* bytes.decode('utf-8', 'ignore') of one byte: a byte that is not valid
\* UTF-8 on its own is dropped, an ASCII byte is its character.
Decode(b) == IF b \in {"E0", "FF"} THEN "" ELSE b

\* str.isprintable(): true of the empty string as well.
IsPrintable(c) == c = "" \/ c \in PrintableChars

\* Python truth value of what getch() returned.
Truthy(c) == c # "None" /\ c # ""

RECURSIVE LStrip(_)
LStrip(s) == IF s # <<>> /\ Head(s) \in Whitespace THEN LStrip(Tail(s)) ELSE s

RECURSIVE RStrip(_)
RStrip(s) ==
    IF s # <<>> /\ s[Len(s)] \in Whitespace
    THEN RStrip(SubSeq(s, 1, Len(s) - 1))
    ELSE s

\* str.strip()
Strip(s) == RStrip(LStrip(s))

----------------------------------------------------------------------------
\* Word books

Line(s) == s \o <<"\n">>

NoFile == [exists |-> FALSE, lines |-> <<>>]

Files ==
    { NoFile,
      [exists |-> TRUE, lines |-> <<>>],
      [exists |-> TRUE, lines |-> <<Line(<<" ">>), Line(<<>>)>>],
      [exists |-> TRUE, lines |-> <<Line(<<"\t", "a", "b", " ">>), Line(<<>>),
                                     <<"b">>>>],
      [exists |-> TRUE, lines |-> <<Line(<<"a", "b", "a">>)>>] }

\* Attributes the terminal can have when the program starts; a terminal
\* that another program left in raw mode is one of them.
StartModes == {"cooked", "cbreak", "raw"}

\* A loader that strips the right end of a line only.
RECURSIVE StripLinesRight(_)
StripLinesRight(ls) ==
    IF ls = <<>> THEN <<>>
    ELSE IF Strip(Head(ls)) # <<>>
         THEN <<RStrip(Head(ls))>> \o StripLinesRight(Tail(ls))
         ELSE StripLinesRight(Tail(ls))

\* line 58: [line.strip() for line in f if line.strip()]
RECURSIVE StripLines(_)
StripLines(ls) ==
    IF ls = <<>> THEN <<>>
    ELSE IF Strip(Head(ls)) # <<>>
         THEN <<Strip(Head(ls))>> \o StripLines(Tail(ls))
         ELSE StripLines(Tail(ls))

\* load_wordbook: None and one report when the file is missing, otherwise
\* the stripped non-blank lines.
load_wordbook(f) ==
    IF ~f.exists
    THEN [none |-> TRUE, list |-> <<>>, reports |-> 1]
    ELSE [none |-> FALSE, list |-> StripLines(f.lines), reports |-> 0]

----------------------------------------------------------------------------
\* smart_input: one iteration of the while loop on the value c of getch().
\* Yields the new buffer, the characters written and where control goes.

\* An erase that only moves the cursor back.
EraseBackOnly == <<"BS">>

\* line 104: '\b \b'
Erase == <<"BS", " ", "BS">>

\* Enter that returns the buffer without the blanks around it.
SubmitTrimmed(buf) == [buf |-> Strip(buf), echo |-> <<"\n">>, next |-> "return"]

\* lines 81-83: Enter
Submit(buf) == [buf |-> buf, echo |-> <<"\n">>, next |-> "return"]

\* Tab that wraps around instead of stopping at the end of the word.
AssistNextWrap(buf, tgt) ==
    [buf |-> Append(buf, tgt[(Len(buf) % Len(tgt)) + 1]),
     echo |-> <<tgt[(Len(buf) % Len(tgt)) + 1]>>, next |-> "loop"]

\* Tab that completes only while the buffer is a prefix of the word.
AssistNextPrefixOnly(buf, tgt) ==
    IF Len(buf) < Len(tgt) /\ buf = SubSeq(tgt, 1, Len(buf))
    THEN [buf |-> Append(buf, tgt[Len(buf) + 1]),
          echo |-> <<tgt[Len(buf) + 1]>>, next |-> "loop"]
    ELSE [buf |-> buf, echo |-> <<>>, next |-> "loop"]

\* Tab that completes only a buffer that is not empty.
AssistNextNeedsSeed(buf, tgt) ==
    IF 0 < Len(buf) /\ Len(buf) < Len(tgt)
    THEN [buf |-> Append(buf, tgt[Len(buf) + 1]),
          echo |-> <<tgt[Len(buf) + 1]>>, next |-> "loop"]
    ELSE [buf |-> buf, echo |-> <<>>, next |-> "loop"]

\* lines 86-96: Tab
AssistNext(buf, tgt) ==
    IF Len(buf) < Len(tgt)
    THEN [buf |-> Append(buf, tgt[Len(buf) + 1]),
          echo |-> <<tgt[Len(buf) + 1]>>, next |-> "loop"]
    ELSE [buf |-> buf, echo |-> <<>>, next |-> "loop"]

\* Backspace that drops the oldest character.
BackspaceFifo(buf) ==
    IF Len(buf) > 0
    THEN [buf |-> Tail(buf), echo |-> Erase, next |-> "loop"]
    ELSE [buf |-> buf, echo |-> <<>>, next |-> "loop"]

\* Backspace that erases on the screen whatever the buffer holds.
BackspaceUnguarded(buf) ==
    [buf |-> SubSeq(buf, 1, Len(buf) - 1), echo |-> Erase, next |-> "loop"]

\* lines 100-105: Backspace
Backspace(buf) ==
    IF Len(buf) > 0
    THEN [buf |-> SubSeq(buf, 1, Len(buf) - 1), echo |-> Erase,
          next |-> "loop"]
    ELSE [buf |-> buf, echo |-> <<>>, next |-> "loop"]

\* A first keystroke that repeats the seed is taken as typing over it.
PrintableOverSeed(buf, c) ==
    IF Len(buf) = 1 /\ buf[1] = c
    THEN [buf |-> buf, echo |-> <<>>, next |-> "loop"]
    ELSE [buf |-> Append(buf, c), echo |-> <<c>>, next |-> "loop"]

\* lines 108-111: a visible character
Printable(buf, c) == [buf |-> Append(buf, c), echo |-> <<c>>, next |-> "loop"]

\* Ctrl+C that only abandons the attempt.
InterruptAsSubmit(buf) == [buf |-> buf, echo |-> <<>>, next |-> "return"]

\* lines 114-115: Ctrl+C
Interrupt(buf) == [buf |-> buf, echo |-> <<>>, next |-> "exit"]

\* no branch taken: back to the head of the loop
Ignored(buf) == [buf |-> buf, echo |-> <<>>, next |-> "loop"]

\* A loop that knows 0x08 as the only Backspace code.
HandleKeyNoDel(buf, tgt, c) ==
    IF c \in {"\r", "\n"} THEN Submit(buf)
    ELSE IF c = "\t" THEN AssistNext(buf, tgt)
    ELSE IF c = "BS" THEN Backspace(buf)
    ELSE IF Truthy(c) /\ IsPrintable(c) THEN Printable(buf, c)
    ELSE IF c = "ETX" THEN Interrupt(buf)
    ELSE Ignored(buf)

\* lines 77-115: the if/elif chain
HandleKey(buf, tgt, c) ==
    IF c \in {"\r", "\n"} THEN Submit(buf)
    ELSE IF c = "\t" THEN AssistNext(buf, tgt)
    ELSE IF c \in {"BS", "DEL"} THEN Backspace(buf)
    ELSE IF Truthy(c) /\ IsPrintable(c) THEN Printable(buf, c)
    ELSE IF c = "ETX" THEN Interrupt(buf)
    ELSE Ignored(buf)

\* lines 76-115: the while loop on the values ks that getch() returns one
\* after the other, from buffer buf; it stops at the first return or exit.
RECURSIVE Run(_, _, _)
Run(buf, tgt, ks) ==
    IF ks = <<>> THEN [buf |-> buf, next |-> "loop", left |-> 0]
    ELSE LET h == HandleKey(buf, tgt, Head(ks)) IN
           IF h.next = "loop" THEN Run(h.buf, tgt, Tail(ks))
           ELSE [buf |-> h.buf, next |-> h.next, left |-> Len(ks) - 1]

\* Restoration placed in an except clause instead of in finally.
RestoreOnFailureOnly(saved, current, failed) ==
    IF failed THEN saved ELSE current

\* lines 42-43: the attributes the terminal has when the try statement is
\* left, normally (failed = FALSE) or by an exception.
Restore(saved, current, failed) == saved

\* A reader that hands the byte after a lead byte to its caller.
WinKeySurfaceSecond(ch, ch2) ==
    IF ch \in {"NUL", "E0"}
    THEN [char |-> Decode(ch2), bytes |-> <<ch, ch2>>]
    ELSE [char |-> Decode(ch), bytes |-> <<ch>>]

\* lines 25-29: what _GetchWindows.__call__ returns and the bytes it took,
\* when the first getch() yields ch and a second one would yield ch2.
WinKey(ch, ch2) ==
    IF ch \in {"NUL", "E0"}
    THEN [char |-> "None", bytes |-> <<ch, ch2>>]
    ELSE [char |-> Decode(ch), bytes |-> <<ch>>]

\* A reader that goes on to read when raw mode could not be entered.
SetRawFallback(current, ok) ==
    IF ok
    THEN [term |-> "raw", exc |-> FALSE, next |-> "read"]
    ELSE [term |-> current, exc |-> FALSE, next |-> "read"]

\* line 40: tty.setraw succeeds, or raises and control goes to finally.
SetRaw(current, ok) ==
    IF ok
    THEN [term |-> "raw", exc |-> FALSE, next |-> "read"]
    ELSE [term |-> current, exc |-> TRUE, next |-> "finally"]

\* A test for None only.
NoWordsNoneOnly(r) == r.none

\* line 125: not words
NoWords(r) == r.none \/ r.list = <<>>

\* A buffer that outlives the call (a mutable default argument).
NewBufferShared(old, tgt) == Append(old, tgt[1])

\* line 70: the buffer a call of smart_input starts with; old is what an
\* earlier call left behind.
NewBuffer(old, tgt) == <<tgt[1]>>

\* lines 143-148: the index after an attempt.
NextIndex(i, ok) == IF ok THEN i + 1 ELSE i

\* main: the comparison that decides whether the word is passed.
Accepts(r, tgt) == Strip(r) = tgt

----------------------------------------------------------------------------
Init ==
    /\ platform \in {"win", "unix"}
    /\ file \in Files
    /\ term \in IF platform = "win" THEN {"cooked"} ELSE StartModes
    /\ term0 = term
    /\ pc = "main"
    /\ words = [none |-> TRUE, list |-> <<>>]
    /\ errors = 0
    /\ index = 0
    /\ target = <<>>
    /\ input_buffer = <<>>
    /\ out = <<>>
    /\ char = "None"
    /\ user_input = <<>>
    /\ banner = <<"none">>
    /\ keys = <<>>
    /\ old_settings = "unset"
    /\ reads = 0
    /\ bytes = <<>>
    /\ exc = FALSE
    /\ restore_failed = FALSE
    /\ delivered = 0

\* main, lines 118-130: load the word book; leave when there is none.
LoadWords ==
    /\ pc = "main"
    /\ LET r == load_wordbook(file) IN
         /\ words' = [none |-> r.none, list |-> r.list]
         /\ errors' = errors + r.reports
         /\ pc' = IF NoWords(r) THEN "returned" ELSE "while"
    /\ index' = 0
    /\ UNCHANGED <<restore_failed, delivered, platform, file, term0, term,
                   target, input_buffer, out, char,
                   user_input, banner, keys, old_settings, reads, bytes, exc>>

\* main, lines 131-140, and smart_input, lines 66-74: the next word is
\* taken, the buffer is seeded with its first character and that is shown.
StartAttempt ==
    /\ pc = "while"
    /\ index < Len(words.list)
    /\ target' = words.list[index + 1]
    /\ input_buffer' = NewBuffer(input_buffer, words.list[index + 1])
    /\ out' = <<words.list[index + 1][1]>>
    /\ keys' = <<>>
    /\ banner' = <<"none">>
    /\ char' = "None"
    /\ reads' = 0
    /\ pc' = "getch"
    /\ UNCHANGED <<restore_failed, delivered, platform, file, term0, term,
                   words, errors, index, user_input, old_settings, bytes,
                   exc>>

\* main, lines 150-151: the loop is over.
Finish ==
    /\ pc = "while"
    /\ index >= Len(words.list)
    /\ banner' = <<"complete">>
    /\ pc' = "finished"
    /\ UNCHANGED <<restore_failed, delivered, platform, file, term0, term,
                   words, errors, index, target,
                   input_buffer, out, char, user_input, keys, old_settings,
                   reads, bytes, exc>>

\* The values the reader may deliver now: any, until MaxKeys were delivered,
\* then none (the call waits).
MoreKeys == delivered < MaxKeys
Allowed(units) == IF MoreKeys THEN units ELSE {}

\* _GetchWindows.__call__, lines 25-29: the first msvcrt.getch(); a lead
\* byte sends the call to the second one, any other byte is returned.
GetchWindows ==
    /\ pc = "getch"
    /\ platform = "win"
    /\ \E ch \in Allowed(WinBytes) :
         IF ch \in {"NUL", "E0"}
         THEN /\ bytes' = <<ch>>
              /\ reads' = 1
              /\ pc' = "getch2"
              /\ UNCHANGED <<char, keys, delivered>>
         ELSE LET k == WinKey(ch, ch) IN
                /\ char' = k.char
                /\ bytes' = k.bytes
                /\ reads' = Len(k.bytes)
                /\ keys' = Append(keys, k.char)
                /\ delivered' = delivered + 1
                /\ pc' = "dispatch"
    /\ UNCHANGED <<restore_failed, platform, file, term0, term, words, errors,
                   index, target, input_buffer, out, user_input, banner,
                   old_settings, exc>>

\* _GetchWindows.__call__, lines 27-28: the second msvcrt.getch() takes the
\* byte after the lead byte and the call returns.
GetchWindowsSecond ==
    /\ pc = "getch2"
    /\ \E ch2 \in SecondBytes :
         LET k == WinKey(bytes[1], ch2) IN
           /\ char' = k.char
           /\ bytes' = k.bytes
           /\ reads' = Len(k.bytes)
           /\ keys' = Append(keys, k.char)
    /\ delivered' = delivered + 1
    /\ pc' = "dispatch"
    /\ UNCHANGED <<restore_failed, platform, file, term0, term, words, errors,
                   index, target, input_buffer, out, user_input, banner,
                   old_settings, exc>>

\* _GetchUnix.__call__, lines 37-38: tcgetattr; fails when stdin is no
\* terminal, before anything was changed.
UnixSave ==
    /\ pc = "getch"
    /\ platform = "unix"
    /\ reads' = 0
    /\ \/ /\ old_settings' = term
          /\ pc' = "setraw"
          /\ exc' = FALSE
       \/ /\ pc' = "error"
          /\ exc' = TRUE
          /\ UNCHANGED old_settings
    /\ UNCHANGED <<restore_failed, delivered, platform, file, term0, term,
                   words, errors, index, target, input_buffer, out, char,
                   user_input, banner, keys, bytes>>

\* line 40: tty.setraw
UnixSetRaw ==
    /\ pc = "setraw"
    /\ \E ok \in BOOLEAN :
         LET r == SetRaw(term, ok) IN
           /\ term' = r.term
           /\ exc' = r.exc
           /\ pc' = r.next
    /\ UNCHANGED <<restore_failed, delivered, platform, file, term0, words,
                   errors, index, target, input_buffer, out, char, user_input,
                   banner, keys, old_settings, reads, bytes>>

\* line 41: sys.stdin.read(1)
UnixRead ==
    /\ pc = "read"
    /\ reads' = reads + 1
    /\ \/ /\ \E c \in Allowed(UnixUnits) : char' = c
          /\ UNCHANGED exc
       \/ /\ exc' = TRUE
          /\ UNCHANGED char
    /\ pc' = "finally"
    /\ UNCHANGED <<restore_failed, delivered, platform, file, term0, term,
                   words, errors, index, target, input_buffer, out, user_input,
                   banner, keys, old_settings, bytes>>

\* lines 42-44: the finally clause, then the return or the exception.
\* termios.tcsetattr can raise as well (the terminal has hung up): the
\* attributes stay as they are and that exception leaves the call.
UnixRestore ==
    /\ pc = "finally"
    /\ \/ /\ term' = Restore(old_settings, term, exc)
          /\ IF exc
             THEN pc' = "error" /\ UNCHANGED <<keys, delivered>>
             ELSE /\ pc' = "dispatch"
                  /\ keys' = Append(keys, char)
                  /\ delivered' = delivered + 1
          /\ UNCHANGED <<exc, restore_failed>>
       \/ /\ restore_failed' = TRUE
          /\ exc' = TRUE
          /\ pc' = "error"
          /\ UNCHANGED <<term, keys, delivered>>
    /\ UNCHANGED <<platform, file, term0, words, errors, index, target,
                   input_buffer, out, char, user_input, banner, old_settings,
                   reads, bytes>>

\* smart_input, lines 79-115: the branch taken on char.
Dispatch ==
    /\ pc = "dispatch"
    /\ LET h == HandleKey(input_buffer, target, char) IN
         /\ input_buffer' = h.buf
         /\ out' = out \o h.echo
         /\ pc' = CASE h.next = "return" -> "compare"
                    [] h.next = "exit" -> "exited"
                    [] OTHER -> "getch"
         /\ user_input' = IF h.next = "return" THEN h.buf ELSE user_input
    /\ bytes' = <<>>
    /\ UNCHANGED <<restore_failed, delivered, platform, file, term0, term,
                   words, errors, index, target, char,
                   banner, keys, old_settings, reads, exc>>

\* main, lines 143-148: compare, print the verdict, advance or not.
Compare ==
    /\ pc = "compare"
    /\ banner' = IF Accepts(user_input, target)
                 THEN <<"correct">>
                 ELSE <<"wrong", user_input>>
    /\ index' = NextIndex(index, Accepts(user_input, target))
    /\ pc' = "while"
    /\ UNCHANGED <<restore_failed, delivered, platform, file, term0, term,
                   words, errors, target, input_buffer,
                   out, char, user_input, keys, old_settings, reads, bytes,
                   exc>>

Next ==
    \/ LoadWords
    \/ StartAttempt
    \/ Finish
    \/ GetchWindows
    \/ GetchWindowsSecond
    \/ UnixSave
    \/ UnixSetRaw
    \/ UnixRead
    \/ UnixRestore
    \/ Dispatch
    \/ Compare

Spec == Init /\ [][Next]_vars

----------------------------------------------------------------------------
\* Properties

\* The keys of this attempt before the last one.
Earlier == SubSeq(keys, 1, Len(keys) - 1)

\* C1: the index advances exactly when the returned string is
\* equal to the target.
C1_ExactMatch ==
    [][pc = "compare" => ((index' = index + 1) <=> (user_input = target))]_vars

\* C2: an attempt that does not return the target leaves the
\* index alone and the same word is asked again, one that returns the
\* target advances the index by 1, words are asked in order and the
\* completion banner comes only after the last word was matched.
C2_DrillLoopExact ==
    [][/\ index' \in {index, index + 1}
       /\ index' # index => pc = "compare"
       /\ (pc = "compare" /\ user_input # target) =>
              (index' = index /\ pc' = "while")
       /\ (pc = "compare" /\ user_input = target) => index' = index + 1
       /\ (pc = "while" /\ pc' = "getch") =>
              (index' = index /\ target' = words.list[index + 1])
       /\ (pc = "while" /\ banner[1] = "wrong") =>
              (pc' = "getch" /\ target' = target)
       /\ (pc' = "finished" /\ pc # "finished") =>
              (/\ index = Len(words.list)
               /\ banner = <<"correct">>
               /\ user_input = words.list[Len(words.list)])]_vars

\* C3: when only visible characters were typed before Enter, the returned
\* string is the seed followed by the typed characters in order.
C3_SeedThenTyped ==
    (pc = "compare" /\ \A i \in 1..(Len(keys) - 1) : keys[i] \in PrintableChars)
        => user_input = <<target[1]>> \o Earlier

\* The whole word was typed after the seed: "aba" gives "aaba".
C3_Witness ==
    /\ pc = "compare"
    /\ target = <<"a", "b", "a">>
    /\ Earlier = target
    /\ user_input = <<"a", "a", "b", "a">>

\* C4: Backspace on a non-empty buffer drops exactly the last character,
\* keeps the others and writes back, space, back; the seed typed again and
\* erased leaves the seed.
C4_BackspaceLifo ==
    [][/\ (pc = "dispatch" /\ char \in {"BS", "DEL"} /\ input_buffer # <<>>) =>
              (/\ Len(input_buffer') = Len(input_buffer) - 1
               /\ \A i \in 1..Len(input_buffer') :
                     input_buffer'[i] = input_buffer[i]
               /\ out' = out \o <<"BS", " ", "BS">>)
       /\ (/\ pc = "dispatch" /\ pc' = "compare" /\ Len(keys) = 3
           /\ keys[1] = target[1] /\ keys[2] \in {"BS", "DEL"}) =>
              user_input' = <<target[1]>>]_vars

\* A character put in by Tab was erased again.
C4_Witness ==
    /\ pc = "getch"
    /\ keys = <<"\t", "BS">>
    /\ input_buffer = <<target[1]>>
    /\ out = <<target[1], target[2], "BS", " ", "BS">>

\* C5: Backspace on an empty buffer changes neither buffer nor screen and
\* the loop goes on; the length of the buffer is never negative.
C5_BackspaceOnEmpty ==
    /\ [](Len(input_buffer) >= 0)
    /\ [][(pc = "dispatch" /\ char \in {"BS", "DEL"} /\ input_buffer = <<>>) =>
              (input_buffer' = <<>> /\ out' = out /\ pc' = "getch")]_vars

\* The seed was erased and Backspace was pressed once more.
C5_Witness ==
    /\ pc = "getch"
    /\ keys = <<"BS", "DEL">>
    /\ input_buffer = <<>>
    /\ out = <<target[1], "BS", " ", "BS">>

\* C6: Tab with a buffer at least as long as the target changes neither
\* buffer nor screen, and no Tab makes the buffer longer than the target.
C6_AssistAtBoundary ==
    [][(pc = "dispatch" /\ char = "\t") =>
          (/\ Len(input_buffer) >= Len(target) =>
                  (input_buffer' = input_buffer /\ out' = out)
           /\ input_buffer' # input_buffer =>
                  Len(input_buffer') <= Len(target))]_vars

\* Tab was pressed on a buffer longer than the target.
C6_Witness ==
    /\ pc = "getch"
    /\ target = <<"a", "b">>
    /\ keys = <<"\t", "b", "\t">>
    /\ input_buffer = <<"a", "b", "b">>
    /\ out = input_buffer

\* C7: Tab with a buffer of length n shorter than the target appends and
\* echoes target[n], whatever the buffer holds; k Tabs and Enter on the
\* fresh buffer return the first k+1 characters of the target.
C7_AssistAppendsNext ==
    [][/\ (pc = "dispatch" /\ char = "\t" /\ Len(input_buffer) < Len(target)) =>
              (/\ input_buffer' =
                     Append(input_buffer, target[Len(input_buffer) + 1])
               /\ out' = Append(out, target[Len(input_buffer) + 1]))
       /\ (/\ pc = "dispatch" /\ pc' = "compare"
           /\ \A i \in 1..(Len(keys) - 1) : keys[i] = "\t"
           /\ Len(keys) - 1 < Len(target)) =>
              user_input' = SubSeq(target, 1, Len(keys))]_vars

\* Tab completed a buffer that is no prefix of the target.
C7_Witness ==
    /\ pc = "getch"
    /\ target = <<"a", "b", "a">>
    /\ keys = <<"BS", "b", "\t">>
    /\ input_buffer = <<"b", "b">>

\* C8: on the POSIX path a call of the reader saves the
\* attributes, enters raw mode, reads once, and leaves with the saved
\* attributes in force whether it returns or fails; the terminal is raw
\* only inside the call.
C8_ScopedRawMode ==
    /\ [](platform = "unix" =>
             /\ term = "raw" => pc \in {"read", "finally"}
             /\ pc \notin {"read", "finally"} => term = term0
             /\ pc = "read" => term = "raw"
             /\ reads <= 1)
    /\ [][platform = "unix" =>
             /\ (pc = "getch" /\ pc' = "setraw") => old_settings' = term
             /\ (pc = "setraw" /\ pc' = "read") => term' = "raw"
             /\ (pc = "finally" /\ pc' = "dispatch") =>
                    (reads = 1 /\ term' = old_settings)
             /\ (pc = "finally" /\ pc' = "error") => term' = old_settings
             /\ (pc = "getch" /\ pc' = "error") => term' = term]_vars

\* C9: when Ctrl+C ends the process the terminal has the attributes it had
\* before, however many characters are in the buffer.
C9_InterruptRestores == pc = "exited" => term = term0

\* Ctrl+C on the POSIX path with three characters in the buffer.
C9_Witness ==
    /\ pc = "exited"
    /\ platform = "unix"
    /\ char = "ETX"
    /\ Len(input_buffer) = 3
    /\ term = term0

\* C10: Ctrl+C ends the process at once: nothing is returned, echoed or
\* read, the index stays, and no banner is printed afterwards.
C10_InterruptEndsProcess ==
    [][/\ (pc = "dispatch" /\ char = "ETX") =>
              (/\ pc' = "exited"
               /\ UNCHANGED <<input_buffer, out, user_input, index, banner,
                              keys, reads>>)
       /\ pc = "exited" => UNCHANGED vars]_vars

\* Ctrl+C during the second word, after another key; user_input is still
\* what the first word's attempt returned.
C10_Witness ==
    /\ pc = "exited"
    /\ index = 1
    /\ keys = <<"a", "ETX">>
    /\ banner = <<"none">>
    /\ input_buffer = <<"b", "a">>
    /\ user_input = <<"a", "b">>

\* The branches of the loop whose condition holds of c.
Branches(c) ==
    {k \in {"Submit", "AssistNext", "Backspace", "Printable", "Interrupt"} :
        \/ k = "Submit" /\ c \in {"\r", "\n"}
        \/ k = "AssistNext" /\ c = "\t"
        \/ k = "Backspace" /\ c \in {"BS", "DEL"}
        \/ k = "Printable" /\ Truthy(c) /\ IsPrintable(c)
        \/ k = "Interrupt" /\ c = "ETX"}

\* The values that belong to no event but Ignored.
IgnoredKeys == {"ESC", "", "None"}

\* C11: every value read is handled as exactly one event: CR and LF as
\* Submit, Tab as AssistNext, 0x08 and 0x7f as Backspace, 0x03 as
\* Interrupt, another visible character as Printable, the rest as Ignored;
\* no value satisfies two branch conditions.
C11_OneEventPerKey ==
    [][pc = "dispatch" =>
         /\ Cardinality(Branches(char)) <= 1
         /\ char \in {"\r", "\n"} =>
                (pc' = "compare" /\ user_input' = input_buffer)
         /\ char = "\t" =>
                (/\ pc' = "getch"
                 /\ \/ input_buffer' = input_buffer
                    \/ /\ Len(input_buffer) < Len(target)
                       /\ input_buffer' =
                             Append(input_buffer,
                                    target[Len(input_buffer) + 1]))
         /\ char \in {"BS", "DEL"} =>
                (/\ pc' = "getch"
                 /\ input_buffer' =
                       SubSeq(input_buffer, 1, Len(input_buffer) - 1))
         /\ char = "ETX" => pc' = "exited"
         /\ char \in PrintableChars =>
                (pc' = "getch" /\ input_buffer' = Append(input_buffer, char))
         /\ char \in IgnoredKeys =>
                (pc' = "getch" /\ input_buffer' = input_buffer /\ out' = out)
         /\ char \in {"\r", "\n", "\t", "BS", "DEL", "ETX"}
                       \cup PrintableChars \cup IgnoredKeys]_vars

\* 0x7f erased the seed, then a lead byte and an undecodable byte were
\* ignored.
C11_Witness ==
    /\ platform = "win"
    /\ pc = "getch"
    /\ keys = <<"DEL", "None", "">>
    /\ input_buffer = <<>>
    /\ out = <<target[1], "BS", " ", "BS">>

\* C12: an Ignored event changes neither buffer nor screen and the loop
\* goes on; on the console path a lead byte 0x00 or 0xe0 makes the same
\* call take the byte that follows and drop it, so that byte is never
\* handled as a key.
C12_IgnoredAndLeadBytes ==
    [][/\ (pc = "dispatch" /\ char \in IgnoredKeys) =>
              (input_buffer' = input_buffer /\ out' = out /\ pc' = "getch")
       /\ (pc = "getch" /\ platform = "win" /\ bytes'[1] \in {"NUL", "E0"}) =>
              (/\ pc' = "getch2"
               /\ UNCHANGED <<char, keys, input_buffer, out, user_input>>)
       /\ pc = "getch2" =>
              (/\ pc' = "dispatch"
               /\ Len(bytes') = 2
               /\ bytes'[1] = bytes[1]
               /\ reads' = 2
               /\ char' = "None"
               /\ keys' = Append(keys, "None")
               /\ UNCHANGED <<input_buffer, out, user_input>>)
       /\ (pc = "dispatch" /\ Len(bytes) = 2) =>
              (input_buffer' = input_buffer /\ out' = out /\ pc' = "getch")
       /\ (pc = "getch" /\ platform = "win" /\ pc' = "dispatch") =>
              (Len(bytes') = 1 /\ bytes'[1] \notin {"NUL", "E0"})]_vars

\* A lead byte was followed by CR; the call took both and returned None.
C12_Witness ==
    /\ platform = "win"
    /\ pc = "dispatch"
    /\ bytes = <<"E0", "\r">>
    /\ char = "None"
    /\ keys = <<"a", "None">>
    /\ input_buffer = <<target[1], "a">>

\* C13: smart_input returns only on Submit; it then writes a newline, reads
\* no further key and returns the buffer as it is, the empty string
\* included.
C13_ReturnOnSubmitOnly ==
    [][/\ (pc' = "compare" /\ pc # "compare") =>
              (/\ pc = "dispatch"
               /\ char \in {"\r", "\n"}
               /\ user_input' = input_buffer
               /\ input_buffer' = input_buffer
               /\ out' = Append(out, "\n")
               /\ keys' = keys)
       /\ (pc = "dispatch" /\ char \in {"\r", "\n"}) => pc' = "compare"
       /\ (pc = "dispatch" /\ char \notin {"\r", "\n"}) =>
              (pc' # "compare" /\ user_input' = user_input)
       /\ pc = "compare" => (keys' = keys /\ reads' = reads)]_vars

\* The seed was erased and Enter returned the empty string.
C13_Witness ==
    /\ pc = "compare"
    /\ keys = <<"BS", "\r">>
    /\ user_input = <<>>
    /\ out = <<target[1], "BS", " ", "BS", "\n">>

\* The file is missing, or holds no line with a character that is not
\* whitespace.
NoWordSource ==
    \/ ~file.exists
    \/ \A i \in 1..Len(file.lines) :
          \A j \in 1..Len(file.lines[i]) : file.lines[i][j] \in Whitespace

\* C14: with a missing or empty word source the drill never starts:
\* smart_input is not called, no key is read, the terminal is not touched.
C14_NoDrillWithoutWords ==
    NoWordSource =>
        /\ pc \in {"main", "returned"}
        /\ target = <<>>
        /\ input_buffer = <<>>
        /\ out = <<>>
        /\ keys = <<>>
        /\ reads = 0
        /\ old_settings = "unset"
        /\ term = term0
        /\ banner = <<"none">>

\* main has returned on a file of blank lines.
C14_Witness ==
    /\ pc = "returned"
    /\ file.exists
    /\ Len(file.lines) = 2
    /\ words = [none |-> FALSE, list |-> <<>>]

\* C15: a missing and an empty word source are each reported exactly once
\* before the program ends.
C15_ReportedOnce == (pc = "returned" /\ NoWordSource) => errors = 1

\* C16: when raw mode cannot be entered the reader raises: nothing is read
\* in another mode, no value is handed to the loop and the buffer is left
\* alone.
C16_NoRawModeIsAnError ==
    [][platform = "unix" =>
         /\ (pc = "getch" /\ pc' # "setraw") =>
                (/\ pc' = "error"
                 /\ exc'
                 /\ reads' = 0
                 /\ UNCHANGED <<keys, input_buffer, char, out, term>>)
         /\ (pc = "setraw" /\ term' # "raw") =>
                (/\ pc' = "finally"
                 /\ exc'
                 /\ reads' = 0
                 /\ UNCHANGED <<keys, input_buffer, char, out>>)
         /\ (pc = "finally" /\ exc) =>
                (/\ pc' = "error"
                 /\ UNCHANGED <<keys, input_buffer, char, out, reads>>)
         /\ pc' = "read" => term' = "raw"
         /\ pc = "error" => UNCHANGED vars]_vars

\* tty.setraw failed on the first call: no read, nothing handed over.
C16_Witness ==
    /\ platform = "unix"
    /\ pc = "error"
    /\ exc
    /\ reads = 0
    /\ old_settings = term0
    /\ term = term0
    /\ keys = <<>>
    /\ input_buffer = <<target[1]>>

\* A word as the loader is to deliver it.
Trimmed(w) == w # <<>> /\ w[1] \notin Whitespace /\ w[Len(w)] \notin Whitespace

\* C17: smart_input is never called with an empty target: every word of
\* the loaded book, and so every target, is non-empty and has no whitespace
\* at either end, whatever the file holds.
C17_TargetsAreWords ==
    /\ pc # "main" => \A i \in 1..Len(words.list) : Trimmed(words.list[i])
    /\ pc \in {"getch", "getch2", "setraw", "read", "finally", "dispatch",
              "compare"} =>
           (Trimmed(target) /\ target = words.list[index + 1])

\* The second word of a file with padded and blank lines is asked.
C17_Witness ==
    /\ pc = "getch"
    /\ index = 1
    /\ target = <<"b">>
    /\ file.lines = <<Line(<<"\t", "a", "b", " ">>), Line(<<>>), <<"b">>>>

\* The input line from the seed column on after the characters o were
\* written to it: a character goes to the cursor cell and moves the cursor
\* right, "BS" moves it left; under tells that "BS" came at the seed column.
RECURSIVE Screen(_, _)
Screen(o, st) ==
    IF o = <<>> THEN st
    ELSE IF Head(o) = "BS"
    THEN Screen(Tail(o),
                [cells |-> st.cells,
                 cur |-> IF st.cur > 0 THEN st.cur - 1 ELSE 0,
                 under |-> st.under \/ st.cur = 0])
    ELSE Screen(Tail(o),
                [cells |-> IF st.cur < Len(st.cells)
                           THEN [st.cells EXCEPT ![st.cur + 1] = Head(o)]
                           ELSE Append(st.cells, Head(o)),
                 cur |-> st.cur + 1,
                 under |-> st.under])

\* C18: while smart_input waits for or handles a key, the line shows, from
\* the seed column to the cursor, exactly the buffer, with only blanks
\* after the cursor, and the cursor was never moved left of the seed
\* column.
C18_EchoShowsBuffer ==
    pc \in {"getch", "getch2", "setraw", "read", "finally", "dispatch"} =>
        LET s == Screen(out, [cells |-> <<>>, cur |-> 0, under |-> FALSE]) IN
          /\ ~s.under
          /\ s.cur = Len(input_buffer)
          /\ SubSeq(s.cells, 1, s.cur) = input_buffer
          /\ \A i \in (s.cur + 1)..Len(s.cells) : s.cells[i] = " "

\* A typed character was erased and Tab wrote over its cell.
C18_Witness ==
    /\ pc = "getch"
    /\ target = <<"a", "b", "a">>
    /\ keys = <<"a", "DEL", "\t">>
    /\ input_buffer = <<"a", "b">>
    /\ out = <<"a", "a", "BS", " ", "BS", "b">>

\* C19: every call of smart_input, a retry included, starts with the buffer
\* holding the first character of its target and nothing else.
C19_FreshBufferPerAttempt ==
    [][(pc = "while" /\ pc' = "getch") =>
          (/\ input_buffer' = <<words.list[index + 1][1]>>
           /\ out' = input_buffer'
           /\ keys' = <<>>
           /\ target' = words.list[index + 1])]_vars

\* The second word starts with its own seed after the first was passed.
C19_Witness ==
    /\ pc = "getch"
    /\ index = 1
    /\ keys = <<>>
    /\ target = <<"b">>
    /\ input_buffer = <<"b">>
    /\ out = <<"b">>

\* As many Backspaces as the buffer is long, as many Tabs as the target is
\* long, then Enter.
Rescue(n, len) ==
    [i \in 1..(n + len + 1) |->
        IF i <= n THEN "BS" ELSE IF i <= n + len THEN "\t" ELSE "\r"]

\* C20: from every buffer smart_input can hold, erasing it, pressing Tab
\* once per character of the target and pressing Enter returns the target,
\* which main accepts.
C20_TargetAlwaysReachable ==
    pc = "getch" =>
        LET r == Run(input_buffer, target,
                     Rescue(Len(input_buffer), Len(target))) IN
          /\ r.next = "return"
          /\ r.left = 0
          /\ r.buf = target
          /\ Accepts(r.buf, target)
          /\ NextIndex(index, Accepts(r.buf, target)) = index + 1

\* The seed was erased, Tab gave the whole word and it was accepted.
C20_Witness ==
    /\ pc = "while"
    /\ banner = <<"correct">>
    /\ target = <<"a", "b">>
    /\ keys = <<"BS", "\t", "\t", "\r">>
    /\ user_input = target
    /\ index = 1

====
